---- MODULE Spec2Model ----
(***************************************************************************)
(* Model of socket-server-client.  The command server (src/server.py): the *)
(* listener, the per-connection worker handle_client, the dispatcher        *)
(* request_parser and the executor execute_cmd.  The client                 *)
(* (src/client.py): get_cmd, generate_request and send_request.             *)
(*                                                                         *)
(* Text (stdout, stderr, command lines) is a sequence of one-character      *)
(* strings.  A request payload of the server is described by what           *)
(* json.loads makes of its bytes: bytes that are no UTF-8 text, text that   *)
(* is no JSON, or a JSON value.  The request text of the client is a        *)
(* sequence of tokens with the character counts of json.dumps.              *)
(***************************************************************************)
EXTENDS Naturals, Sequences, FiniteSets, TLC

VARIABLES
    server,   \* the Server object's fields (host, port, cmd_timeout, conn_timeout)
    listener, \* the accept loop of Server.start: its position, the workers it started
    pc,       \* pc[c]: where the worker of connection c stands
    conn,     \* conn[c]: the accepted socket: timeout set, recv and close calls, bytes sent
    data,     \* data[c]: the bytes request_parser was called with
    cmds,     \* cmds[c]: the items the loop "for cmd in data" iterates over
    idx,      \* idx[c]: number of loop iterations completed
    result,   \* result[c]: result["response"], the list under construction
    exc,      \* exc[c]: the exception raised inside the try block, or NoExc
    resp,     \* resp[c]: what request_parser returned (or that it raised)
    ran,      \* ran[c]: the subprocess.run calls made so far, with their outcomes
    client    \* one call of Client.send_request: its position, locals and socket calls

vars == <<server, listener, pc, conn, data, cmds, idx, result, exc, resp, ran, client>>

---------------------------------------------------------------------------
(* Bounds of the model *)

\* longest "commands" array of a request payload
MaxCmds == 2

\* longest batch a peer sends over a connection
MaxBatch == 2

\* most lines of a command file
MaxLines == 2

\* the connections (worker threads) of the model
Conns == {"c1", "c2"}

---------------------------------------------------------------------------
(* Text *)

\* Python's  needle in hay  for str
Contains(hay, needle) ==
    \E i \in 1..(Len(hay) + 1) :
        /\ i + Len(needle) - 1 <= Len(hay)
        /\ SubSeq(hay, i, i + Len(needle) - 1) = needle

\* the literal "not found" of execute_cmd
NotFound == <<"n", "o", "t", " ", "f", "o", "u", "n", "d">>

\* captured standard output of a finished subprocess: "", "hi"
StdoutTexts == { <<>>, <<"h", "i">> }

\* captured standard error: "", "e: not found", "Not found"
StderrTexts ==
    { <<>>,
      <<"e", ":", " ", "n", "o", "t", " ", "f", "o", "u", "n", "d">>,
      <<"N", "o", "t", " ", "f", "o", "u", "n", "d">> }

\* exit codes of a finished subprocess
ExitCodes == {0, 1, 127}

---------------------------------------------------------------------------
(* Request payloads *)

Ids == {"a", "b"}

\* a JSON value that is no object, as an element of "commands"
ScalarEntry(t) ==
    [type |-> t, has_id |-> FALSE, id |-> "", has_method |-> FALSE, method_type |-> ""]

\* the elements a "commands" array may hold
ObjectEntries ==
    { [type |-> "object", has_id |-> hi, id |-> i, has_method |-> hm, method_type |-> mt] :
        hi \in BOOLEAN, i \in Ids \cup {""}, hm \in BOOLEAN,
        mt \in {"string", "number", ""} }

Entries ==
    { e \in ObjectEntries :
        /\ e.has_id <=> e.id # ""
        /\ e.has_method <=> e.method_type # "" }
    \cup { ScalarEntry("string"), ScalarEntry("null") }

SeqsUpTo(S, n) == UNION { [1..k -> S] : k \in 0..n }

\* the value under the key "commands": an array of entries, or a value of
\* another JSON type.  items is what iterating the decoded value yields: the
\* elements of a list, the characters of a str, the keys of a dict.
CommandsValues ==
    { [type |-> "array", items |-> s] : s \in SeqsUpTo(Entries, MaxCmds) }
    \cup { [type |-> "string", items |-> s] : s \in SeqsUpTo({ScalarEntry("string")}, 1) }
    \cup { [type |-> "object", items |-> s] : s \in SeqsUpTo({ScalarEntry("string")}, 1) }
    \cup { [type |-> t, items |-> <<>>] : t \in {"null", "number"} }

NoCommands == [type |-> "", items |-> <<>>]

\* the top-level JSON value of a payload
TopValues ==
    { [type |-> "object", has_commands |-> TRUE, commands |-> v] : v \in CommandsValues }
    \cup { [type |-> t, has_commands |-> FALSE, commands |-> NoCommands] :
             t \in {"object", "array", "string", "number", "null"} }

NoTop == [type |-> "", has_commands |-> FALSE, commands |-> NoCommands]

\* the bytes a caller may hand to request_parser
Payloads ==
    { [kind |-> "json", top |-> v] : v \in TopValues }
    \cup { [kind |-> k, top |-> NoTop] : k \in {"invalid_utf8", "not_json"} }

NoData == [kind |-> "", top |-> NoTop]

---------------------------------------------------------------------------
(* Exceptions *)

NoExc == "none"

\* the classes an exception is an instance of
Bases(e) ==
    CASE e = "JSONDecodeError"    -> {"JSONDecodeError", "ValueError", "Exception"}
      [] e = "UnicodeDecodeError" -> {"UnicodeDecodeError", "ValueError", "Exception"}
      [] e = "KeyError"           -> {"KeyError", "LookupError", "Exception"}
      [] e = "TypeError"          -> {"TypeError", "Exception"}
      [] e = "TimeoutExpired"     -> {"TimeoutExpired", "SubprocessError", "Exception"}
      [] e = "socket.timeout"     -> {"socket.timeout", "OSError", "Exception"}
      [] e = "OSError"            -> {"OSError", "Exception"}

\* the except clause a try statement selects: the first whose class matches,
\* 0 when none does and the exception propagates
Selected(e, handlers) ==
    LET m == { i \in DOMAIN handlers : handlers[i] \in Bases(e) }
    IN  IF m = {} THEN 0 ELSE CHOOSE i \in m : \A j \in m : i <= j

---------------------------------------------------------------------------
(* The Server object, the listener and the sockets *)

\* Server.__init__, called as Server(SERVER_IP, SERVER_PORT)
ServerInit ==
    [host |-> "SERVER_IP", port |-> "SERVER_PORT",
     cmd_timeout |-> "CMD_TIMEOUT", conn_timeout |-> "CONN_TIMEOUT"]

\* a connection not accepted yet: no timeout set, nothing received or sent
NoConn ==
    [state |-> "none", timeout |-> "none", recvs |-> 0, sent |-> <<>>, closes |-> 0,
     note |-> ""]

\* the listener before Server.start is called
NoListener == [pc |-> "init", conn |-> "", started |-> <<>>]

---------------------------------------------------------------------------
(* Command Executor: Server.execute_cmd *)

\* what subprocess.run(cmd, shell=True, text=True, capture_output=True,
\* timeout=...) can do for a command line: the process exits within the timeout,
\* the timeout expires, or the captured output is no text
ProcessOutcomes ==
    { [kind |-> "exit", returncode |-> rc, stdout |-> so, stderr |-> se, exc |-> NoExc] :
        rc \in ExitCodes, so \in StdoutTexts, se \in StderrTexts }
    \cup { [kind |-> "raise", returncode |-> 0, stdout |-> <<>>, stderr |-> <<>>, exc |-> e] :
             e \in {"TimeoutExpired", "UnicodeDecodeError"} }

\* subprocess.run of a method that is no string raises TypeError
RunOutcomes(method_type, outcomes) ==
    IF method_type = "string"
    THEN outcomes
    ELSE { [kind |-> "raise", returncode |-> 0, stdout |-> <<>>, stderr |-> <<>>,
            exc |-> "TypeError"] }

\* execute_cmd reporting "not found" only for a failed process
execute_cmd_CodeNeedsFailure(run) ==
    [ status     |-> (run.returncode = 0),
      stdout     |-> run.stdout,
      stderr     |-> run.stderr,
      error_code |-> IF run.returncode # 0 /\ Contains(run.stderr, NotFound)
                     THEN 3 ELSE 0 ]

\* execute_cmd clearing status whenever stderr reports "not found"
execute_cmd_StatusFromStderr(run) ==
    [ status     |-> (run.returncode = 0 /\ ~Contains(run.stderr, NotFound)),
      stdout     |-> run.stdout,
      stderr     |-> run.stderr,
      error_code |-> IF Contains(run.stderr, NotFound) THEN 3 ELSE 0 ]

\* execute_cmd reporting a failed process that is not "not found" as code 4
execute_cmd_FailureIs4(run) ==
    [ status     |-> (run.returncode = 0),
      stdout     |-> run.stdout,
      stderr     |-> run.stderr,
      error_code |-> IF Contains(run.stderr, NotFound) THEN 3
                     ELSE IF run.returncode # 0 THEN 4 ELSE 0 ]

\* the dict execute_cmd returns for a finished subprocess
execute_cmd(run) ==
    [ status     |-> (run.returncode = 0),
      stdout     |-> run.stdout,
      stderr     |-> run.stderr,
      error_code |-> IF Contains(run.stderr, NotFound) THEN 3 ELSE 0 ]

---------------------------------------------------------------------------
(* Request Dispatcher: Server.request_parser *)

\* json.loads(data): the decoded value, or the exception it raises
json_loads(d) ==
    CASE d.kind = "invalid_utf8" -> [exc |-> "UnicodeDecodeError", value |-> NoTop]
      [] d.kind = "not_json"     -> [exc |-> "JSONDecodeError", value |-> NoTop]
      [] d.kind = "json"         -> [exc |-> NoExc, value |-> d.top]

\* value["commands"]
GetCommands(v) ==
    IF v.type # "object" THEN [exc |-> "TypeError", value |-> NoCommands]
    ELSE IF ~v.has_commands THEN [exc |-> "KeyError", value |-> NoCommands]
    ELSE [exc |-> NoExc, value |-> v.commands]

\* a loop that walks the commands from the last to the first
Iterate_Reversed(v) ==
    IF v.type \in {"array", "string", "object"}
    THEN [exc |-> NoExc,
          items |-> [i \in 1..Len(v.items) |-> v.items[Len(v.items) + 1 - i]]]
    ELSE [exc |-> "TypeError", items |-> <<>>]

\* iter(commands): a list, a str and a dict are iterable, a number and None are not
Iterate(v) ==
    IF v.type \in {"array", "string", "object"}
    THEN [exc |-> NoExc, items |-> v.items]
    ELSE [exc |-> "TypeError", items |-> <<>>]

\* cmd[key] for key "method" (has = cmd.has_method) or "id" (has = cmd.has_id)
GetItemExc(cmd, has) ==
    IF cmd.type # "object" THEN "TypeError"
    ELSE IF ~has THEN "KeyError"
    ELSE NoExc

\* the update storing the id under another key, so that "id" stays unset
UpdateId_Unset(r, id) ==
    [status |-> r.status, stdout |-> r.stdout, stderr |-> r.stderr,
     error_code |-> r.error_code, id |-> ""]

\* result["response"][-1].update({"id": cmd["id"]})
UpdateId(r, id) ==
    [status |-> r.status, stdout |-> r.stdout, stderr |-> r.stderr,
     error_code |-> r.error_code, id |-> id]

\* request_parser without its last clause, except Exception
ParserHandlers_NoCatchAll == <<"JSONDecodeError", "KeyError">>

\* the last clause reporting the schema code
ParserErrorCodes_CatchAll2 == <<1, 2, 2>>

\* the except clauses of request_parser, in order, and their error codes
ParserHandlers == <<"JSONDecodeError", "KeyError", "Exception">>

ParserErrorCodes == <<1, 2, 4>>

\* a response that keeps only the results of successful commands
SequenceResponse_OnlySuccessful(items) ==
    [shape |-> "sequence", response |-> SelectSeq(items, LAMBDA r : r.status)]

\* an error response whose status is left true
ErrorResponse_StatusTrue(code) ==
    [shape |-> "singleton", response |-> [status |-> TRUE, error_code |-> code]]

\* json.dumps of the two response shapes
SequenceResponse(items) == [shape |-> "sequence", response |-> items]

ErrorResponse(code) ==
    [shape |-> "singleton", response |-> [status |-> FALSE, error_code |-> code]]

NoResp == [shape |-> "none"]

\* request_parser left by an exception no except clause caught
Raised(e) == [shape |-> "raised", exc |-> e]

\* a dispatcher whose result list is an attribute of the Server object,
\* shared by the workers: a call starts from what another call has left in it
ParserDecode_SharedResult(c) ==
    /\ pc[c] = "Decode"
    /\ LET j == json_loads(data[c])
           g == GetCommands(j.value)
           it == Iterate(g.value)
           e == IF j.exc # NoExc THEN j.exc
                ELSE IF g.exc # NoExc THEN g.exc
                ELSE it.exc
       IN  /\ exc' = [exc EXCEPT ![c] = e]
           /\ cmds' = [cmds EXCEPT ![c] = IF e = NoExc THEN it.items ELSE <<>>]
           /\ pc' = [pc EXCEPT ![c] = IF e = NoExc THEN "Loop" ELSE "Except"]
    /\ result' = [result EXCEPT ![c] = result[CHOOSE d \in Conns : d # c]]
    /\ idx' = [idx EXCEPT ![c] = 0]
    /\ UNCHANGED <<client, server, listener, conn, data, resp, ran>>

\* lines 22-25: result = {"response": []}; data = json.loads(data)["commands"];
\* the loop obtains its iterator
ParserDecode(c) ==
    /\ pc[c] = "Decode"
    /\ LET j == json_loads(data[c])
           g == GetCommands(j.value)
           it == Iterate(g.value)
           e == IF j.exc # NoExc THEN j.exc
                ELSE IF g.exc # NoExc THEN g.exc
                ELSE it.exc
       IN  /\ exc' = [exc EXCEPT ![c] = e]
           /\ cmds' = [cmds EXCEPT ![c] = IF e = NoExc THEN it.items ELSE <<>>]
           /\ pc' = [pc EXCEPT ![c] = IF e = NoExc THEN "Loop" ELSE "Except"]
    /\ result' = [result EXCEPT ![c] = <<>>]
    /\ idx' = [idx EXCEPT ![c] = 0]
    /\ UNCHANGED <<client, server, listener, conn, data, resp, ran>>

\* command execution under a lock shared by all workers: a command starts
\* only while no other worker is inside execute_cmd
ExecStart_GlobalLock(c) ==
    /\ pc[c] = "Loop"
    /\ idx[c] < Len(cmds[c])
    /\ \A d \in Conns \ {c} : pc[d] # "Execute"
    /\ LET cmd == cmds[c][idx[c] + 1]
           e == GetItemExc(cmd, cmd.has_method)
       IN  /\ exc' = [exc EXCEPT ![c] = e]
           /\ pc' = [pc EXCEPT ![c] = IF e = NoExc THEN "Execute" ELSE "Except"]
    /\ UNCHANGED <<client, server, listener, conn, data, cmds, idx, result, resp, ran>>

\* a dispatcher that streams: before each further command it writes the
\* results it has so far to the connection
ExecStart_Streams(c) ==
    /\ pc[c] = "Loop"
    /\ idx[c] < Len(cmds[c])
    /\ LET cmd == cmds[c][idx[c] + 1]
           e == GetItemExc(cmd, cmd.has_method)
       IN  /\ exc' = [exc EXCEPT ![c] = e]
           /\ pc' = [pc EXCEPT ![c] = IF e = NoExc THEN "Execute" ELSE "Except"]
    /\ conn' = [conn EXCEPT ![c].sent =
                  IF idx[c] > 0
                  THEN Append(@, [bytes |-> SequenceResponse(result[c]),
                                  complete |-> TRUE])
                  ELSE @]
    /\ UNCHANGED <<client, server, listener, data, cmds, idx, result, resp, ran>>

\* line 26, first half: the next cmd is taken, cmd["method"] is evaluated and
\* execute_cmd is entered
ExecStart(c) ==
    /\ pc[c] = "Loop"
    /\ idx[c] < Len(cmds[c])
    /\ LET cmd == cmds[c][idx[c] + 1]
           e == GetItemExc(cmd, cmd.has_method)
       IN  /\ exc' = [exc EXCEPT ![c] = e]
           /\ pc' = [pc EXCEPT ![c] = IF e = NoExc THEN "Execute" ELSE "Except"]
    /\ UNCHANGED <<client, server, listener, conn, data, cmds, idx, result, resp, ran>>

\* lines 26-30, second half: subprocess.run ends, execute_cmd returns its dict,
\* the dict is appended, cmd["id"] is evaluated and stored in the appended dict
ExecFinish(c, outcomes) ==
    /\ pc[c] = "Execute"
    /\ LET cmd == cmds[c][idx[c] + 1]
       IN  \E run \in RunOutcomes(cmd.method_type, outcomes) :
             /\ ran' = [ran EXCEPT ![c] =
                          Append(@, [pos |-> idx[c] + 1, timeout |-> server.cmd_timeout,
                                     run |-> run])]
             /\ IF run.kind = "raise"
                THEN /\ exc' = [exc EXCEPT ![c] = run.exc]
                     /\ pc' = [pc EXCEPT ![c] = "Except"]
                     /\ UNCHANGED <<result, idx>>
                ELSE LET r == execute_cmd(run)
                         e == GetItemExc(cmd, cmd.has_id)
                     IN  IF e # NoExc
                         THEN /\ exc' = [exc EXCEPT ![c] = e]
                              /\ pc' = [pc EXCEPT ![c] = "Except"]
                              /\ result' = [result EXCEPT ![c] = Append(@, r)]
                              /\ UNCHANGED idx
                         ELSE /\ result' = [result EXCEPT ![c] =
                                               Append(@, UpdateId(r, cmd.id))]
                              /\ idx' = [idx EXCEPT ![c] = @ + 1]
                              /\ pc' = [pc EXCEPT ![c] = "Loop"]
                              /\ UNCHANGED exc
    /\ UNCHANGED <<client, server, listener, conn, data, cmds, resp>>


\* where request_parser returns to: handle_client (line 72) when the worker of
\* an accepted connection called it, else its direct caller
AfterParser(c) == IF conn[c].state = "none" THEN "Done" ELSE "Writing"

\* line 32: the loop is exhausted, return json.dumps(result)
ParserReturn(c) ==
    /\ pc[c] = "Loop"
    /\ idx[c] = Len(cmds[c])
    /\ resp' = [resp EXCEPT ![c] = SequenceResponse(result[c])]
    /\ pc' = [pc EXCEPT ![c] = AfterParser(c)]
    /\ UNCHANGED <<client, server, listener, conn, data, cmds, idx, result, exc, ran>>

\* lines 34-41: the except clause selected sets error_code and the singleton
\* error response is returned; an exception no clause catches leaves the function
ParserExcept(c) ==
    /\ pc[c] = "Except"
    /\ LET k == Selected(exc[c], ParserHandlers)
       IN  IF k = 0
           THEN /\ resp' = [resp EXCEPT ![c] = Raised(exc[c])]
                /\ pc' = [pc EXCEPT ![c] =
                            IF conn[c].state = "none" THEN "Done" ELSE "Closing"]
           ELSE /\ resp' = [resp EXCEPT ![c] = ErrorResponse(ParserErrorCodes[k])]
                /\ pc' = [pc EXCEPT ![c] = AfterParser(c)]
    /\ UNCHANGED <<client, server, listener, conn, data, cmds, idx, result, exc, ran>>

---------------------------------------------------------------------------
(* Connection Handler: Server.handle_client *)

\* the except clauses of handle_client, in order, and what each prints
ClientHandlers == <<"socket.timeout", "Exception">>

ClientNotes == <<"timeout", "error">>

\* the clause of handle_client that handles e (it always has one: the last
\* clause is except Exception)
ClientNote(e) == ClientNotes[Selected(e, ClientHandlers)]

\* data.decode('utf-8') of line 71
DecodeExc(d) == IF d.kind = "invalid_utf8" THEN "UnicodeDecodeError" ELSE NoExc

\* a worker that stores the timeout of its own connection in the Server
\* object as the command timeout
SetTimeout_Overwrites(c) ==
    /\ pc[c] = "Idle"
    /\ conn' = [conn EXCEPT ![c].timeout = server.conn_timeout]
    /\ server' = [server EXCEPT !.cmd_timeout = server.conn_timeout]
    /\ pc' = [pc EXCEPT ![c] = "Reading"]
    /\ UNCHANGED <<client, listener, data, cmds, idx, result, exc, resp, ran>>

\* a worker that reads without setting a timeout on its socket
SetTimeout_Skipped(c) ==
    /\ pc[c] = "Idle"
    /\ pc' = [pc EXCEPT ![c] = "Reading"]
    /\ UNCHANGED <<client, server, listener, conn, data, cmds, idx, result, exc, resp, ran>>

\* line 67: conn.settimeout(self.conn_timeout)
SetTimeout(c) ==
    /\ pc[c] = "Idle"
    /\ conn' = [conn EXCEPT ![c].timeout = server.conn_timeout]
    /\ pc' = [pc EXCEPT ![c] = "Reading"]
    /\ UNCHANGED <<client, server, listener, data, cmds, idx, result, exc, resp, ran>>

\* lines 69-72: conn.recv(1024) returns the bytes the peer sent; they are
\* decoded for the log line and handed to request_parser
RecvData(c, payloads) ==
    /\ pc[c] = "Reading"
    /\ \E d \in payloads :
         LET e == DecodeExc(d)
         IN  /\ data' = [data EXCEPT ![c] = d]
             /\ IF e = NoExc
                THEN /\ conn' = [conn EXCEPT ![c].recvs = @ + 1]
                     /\ pc' = [pc EXCEPT ![c] = "Decode"]
                ELSE /\ conn' = [conn EXCEPT ![c].recvs = @ + 1,
                                             ![c].note = ClientNote(e)]
                     /\ pc' = [pc EXCEPT ![c] = "Closing"]
    /\ UNCHANGED <<client, server, listener, cmds, idx, result, exc, resp, ran>>

\* handle_client returning on an empty read without closing the connection
RecvEmpty_NoClose(c) ==
    /\ pc[c] = "Reading"
    /\ conn' = [conn EXCEPT ![c].recvs = @ + 1, ![c].note = "empty"]
    /\ pc' = [pc EXCEPT ![c] = "Closed"]
    /\ UNCHANGED <<client, server, listener, data, cmds, idx, result, exc, resp, ran>>

\* lines 69-70, 74-75: conn.recv(1024) returns b"": the peer closed
RecvEmpty(c) ==
    /\ pc[c] = "Reading"
    /\ conn' = [conn EXCEPT ![c].recvs = @ + 1, ![c].note = "empty"]
    /\ pc' = [pc EXCEPT ![c] = "Closing"]
    /\ UNCHANGED <<client, server, listener, data, cmds, idx, result, exc, resp, ran>>

\* handle_client reporting a failed read to the peer as an error response
RecvRaises_Reports(c) ==
    /\ pc[c] = "Reading"
    /\ \E e \in {"socket.timeout", "OSError"} :
         conn' = [conn EXCEPT ![c].recvs = @ + 1, ![c].note = ClientNote(e),
                              ![c].sent = Append(@, [bytes |-> ErrorResponse(4),
                                                     complete |-> TRUE])]
    /\ pc' = [pc EXCEPT ![c] = "Closing"]
    /\ UNCHANGED <<client, server, listener, data, cmds, idx, result, exc, resp, ran>>

\* a worker that goes back to its read when the read raised
RecvRaises_Retries(c) ==
    /\ pc[c] = "Reading"
    /\ \E e \in {"socket.timeout", "OSError"} :
         conn' = [conn EXCEPT ![c].recvs = 1, ![c].note = ClientNote(e)]
    /\ pc' = [pc EXCEPT ![c] = "Reading"]
    /\ UNCHANGED <<client, server, listener, data, cmds, idx, result, exc, resp, ran>>

\* lines 69, 77-80: conn.recv(1024) raises: the idle timeout expired
\* (socket.timeout) or the transport failed (OSError)
RecvRaises(c) ==
    /\ pc[c] = "Reading"
    /\ \E e \in {"socket.timeout", "OSError"} :
         conn' = [conn EXCEPT ![c].recvs = @ + 1, ![c].note = ClientNote(e)]
    /\ pc' = [pc EXCEPT ![c] = "Closing"]
    /\ UNCHANGED <<client, server, listener, data, cmds, idx, result, exc, resp, ran>>

\* handle_client looping back to read the next request after its response
SendAll_KeepsReading(c) ==
    /\ pc[c] = "Writing"
    /\ conn' = [conn EXCEPT ![c].sent = Append(@, [bytes |-> resp[c], complete |-> TRUE])]
    /\ pc' = [pc EXCEPT ![c] = "Reading"]
    /\ UNCHANGED <<client, server, listener, data, cmds, idx, result, exc, resp, ran>>

\* line 73: conn.sendall(result.encode()) writes the whole response
SendAll(c) ==
    /\ pc[c] = "Writing"
    /\ conn' = [conn EXCEPT ![c].sent = Append(@, [bytes |-> resp[c], complete |-> TRUE])]
    /\ pc' = [pc EXCEPT ![c] = "Closing"]
    /\ UNCHANGED <<client, server, listener, data, cmds, idx, result, exc, resp, ran>>

\* lines 73, 79-80: conn.sendall raises; how much was written before is not
\* known: nothing, or a part of the response
SendFails(c) ==
    /\ pc[c] = "Writing"
    /\ \E part \in BOOLEAN :
         conn' = [conn EXCEPT
                    ![c].sent = IF part
                                THEN Append(@, [bytes |-> resp[c], complete |-> FALSE])
                                ELSE @,
                    ![c].note = ClientNote("OSError")]
    /\ pc' = [pc EXCEPT ![c] = "Closing"]
    /\ UNCHANGED <<client, server, listener, data, cmds, idx, result, exc, resp, ran>>

\* lines 81-82: finally: conn.close()
Close(c) ==
    /\ pc[c] = "Closing"
    /\ conn' = [conn EXCEPT ![c].state = "closed", ![c].closes = @ + 1]
    /\ pc' = [pc EXCEPT ![c] = "Closed"]
    /\ UNCHANGED <<client, server, listener, data, cmds, idx, result, exc, resp, ran>>

---------------------------------------------------------------------------
(* Listener: Server.start *)

\* lines 89-93: the listening socket is created, bound and listens
Listen ==
    /\ listener.pc = "init"
    /\ listener' = [listener EXCEPT !.pc = "accept"]
    /\ UNCHANGED <<client, server, pc, conn, data, cmds, idx, result, exc, resp, ran>>

\* a listener that handles each connection itself: it accepts the next one
\* only when every earlier one is closed
Accept_Serial(c) ==
    /\ listener.pc = "accept"
    /\ \A d \in Conns : pc[d] \in {"NotAccepted", "Closed"}
    /\ conn[c].state = "none"
    /\ pc[c] = "NotAccepted"
    /\ conn' = [conn EXCEPT ![c].state = "open"]
    /\ listener' = [listener EXCEPT !.pc = "spawn", !.conn = c]
    /\ UNCHANGED <<client, server, pc, data, cmds, idx, result, exc, resp, ran>>

\* line 96: conn, addr = server_socket.accept()
Accept(c) ==
    /\ listener.pc = "accept"
    /\ conn[c].state = "none"
    /\ pc[c] = "NotAccepted"
    /\ conn' = [conn EXCEPT ![c].state = "open"]
    /\ listener' = [listener EXCEPT !.pc = "spawn", !.conn = c]
    /\ UNCHANGED <<client, server, pc, data, cmds, idx, result, exc, resp, ran>>

\* lines 97-98: a new thread running handle_client(conn, addr) is started
Spawn ==
    /\ listener.pc = "spawn"
    /\ pc' = [pc EXCEPT ![listener.conn] = "Idle"]
    /\ listener' = [listener EXCEPT !.pc = "accept", !.conn = "",
                                    !.started = Append(@, listener.conn)]
    /\ UNCHANGED <<client, server, conn, data, cmds, idx, result, exc, resp, ran>>

---------------------------------------------------------------------------
(* Client text: str.strip, uuid.uuid4, json.dumps, str.encode, bytes.decode *)

\* the size passed to recv, by the client and by the server
RecvSize == 1024

\* the characters str.strip() removes from both ends
Whitespace == {" ", "\n"}

RECURSIVE LStrip(_)
LStrip(s) == IF s # <<>> /\ Head(s) \in Whitespace THEN LStrip(Tail(s)) ELSE s

RECURSIVE RStrip(_)
RStrip(s) ==
    IF s # <<>> /\ s[Len(s)] \in Whitespace
    THEN RStrip(SubSeq(s, 1, Len(s) - 1))
    ELSE s

\* line.strip()
strip(s) == RStrip(LStrip(s))

\* the lines f.readlines() can return: every line but the last ends with a
\* newline, the last one may lack it
\* a command line longer than one read of the server
LongLine == [i \in 1..(RecvSize + 1) |-> IF i = RecvSize + 1 THEN "\n" ELSE "x"]

FileLines == {<<"l", "s", "\n">>, <<" ", "p", "w", "d", " ", "\n">>, <<"\n">>, LongLine}
LastLines == FileLines \cup {<<"l", "s">>}
Files ==
    {f \in SeqsUpTo(LastLines, MaxLines) :
        \A i \in 1..(Len(f) - 1) : f[i] \in FileLines}

\* what file_path can be: None, the path of no file, the path of a file
\* that cannot be opened for reading, the path of a readable file
FilePaths == {"none", "missing", "denied", "file"}

\* what input() can return: the typed line without its newline, not stripped
Typed == {<<"l", "s">>, <<" ", "l", "s">>, <<"e", "\"", "x", "\"">>, <<>>}

Digits == <<"1", "2", "3", "4", "5", "6", "7", "8", "9">>

\* a generator that returns the same identifier at every call
uuid4_Constant(k) ==
    [i \in 1..36 |-> IF i \in {9, 14, 19, 24} THEN "-"
                     ELSE IF i = 15 THEN "4"
                     ELSE "0"]

\* str(uuid.uuid4()) at the k-th call: 36 characters, taken as never
\* repeating (random 122-bit values)
uuid4(k) ==
    [i \in 1..36 |-> IF i \in {9, 14, 19, 24} THEN "-"
                     ELSE IF i = 15 THEN "4"
                     ELSE IF i = 36 THEN Digits[k]
                     ELSE "0"]

\* JSON text is a sequence of tokens, each token a sequence of characters
EscapeChar(ch) ==
    IF ch \in {"\"", "\\"} THEN <<"\\", ch>>
    ELSE IF ch = "\n" THEN <<"\\", "n">>
    ELSE <<ch>>

\* the escaping of a text, computed by halves
RECURSIVE Escape(_)
Escape(s) ==
    IF s = <<>> THEN <<>>
    ELSE IF Len(s) = 1 THEN EscapeChar(s[1])
    ELSE LET m == Len(s) \div 2
         IN  Escape(SubSeq(s, 1, m)) \o Escape(SubSeq(s, m + 1, Len(s)))

\* the number of backslashes that stand in a row just before position i
RECURSIVE BackslashesBefore(_, _)
BackslashesBefore(s, i) ==
    IF i > 1 /\ s[i - 1] = "\\" THEN 1 + BackslashesBefore(s, i - 1) ELSE 0

\* the character at position i introduces an escape sequence
IsEscape(s, i) == s[i] = "\\" /\ BackslashesBefore(s, i) % 2 = 0

\* the text an escaped text stands for, computed by halves that do not cut
\* an escape sequence
RECURSIVE Unescape(_)
Unescape(s) ==
    IF Len(s) <= 1 THEN s
    ELSE IF Len(s) = 2
    THEN IF s[1] = "\\" THEN <<IF s[2] = "n" THEN "\n" ELSE s[2]>> ELSE s
    ELSE LET h == Len(s) \div 2
             m == IF IsEscape(s, h) THEN h + 1 ELSE h
         IN  Unescape(SubSeq(s, 1, m)) \o Unescape(SubSeq(s, m + 1, Len(s)))

JsonString(s) == <<"\"">> \o Escape(s) \o <<"\"">>
JsonStringValue(tok) == Unescape(SubSeq(tok, 2, Len(tok) - 1))

KeyCommands == <<"c", "o", "m", "m", "a", "n", "d", "s">>
KeyId == <<"i", "d">>
KeyMethod == <<"m", "e", "t", "h", "o", "d">>
Colon == <<":", " ">>
Comma == <<",", " ">>

DumpCommand(cmd) ==
    << <<"{">>, JsonString(KeyId), Colon, JsonString(cmd.id), Comma,
       JsonString(KeyMethod), Colon, JsonString(cmd.method), <<"}">> >>

RECURSIVE DumpList(_)
DumpList(items) ==
    IF items = <<>> THEN <<>>
    ELSE IF Len(items) = 1 THEN DumpCommand(items[1])
    ELSE DumpCommand(Head(items)) \o <<Comma>> \o DumpList(Tail(items))

\* json.dumps(request), request = {"commands": [{"id": .., "method": ..}, ..]}
json_dumps(request) ==
    << <<"{">>, JsonString(KeyCommands), Colon, <<"[">> >>
        \o DumpList(request.commands) \o << <<"]">>, <<"}">> >>

\* the commands a JSON text of the request grammar holds, read back from its
\* tokens: a command takes nine tokens, two commands are a comma apart
RequestCommands(text) ==
    LET n == IF Len(text) <= 6 THEN 0 ELSE (Len(text) - 5) \div 10
    IN  [i \in 1..n |->
            [id |-> JsonStringValue(text[10 * (i - 1) + 8]),
             method |-> JsonStringValue(text[10 * (i - 1) + 12])]]

\* number of characters of a text
RECURSIVE TextLen(_)
TextLen(text) == IF text = <<>> THEN 0 ELSE Len(Head(text)) + TextLen(Tail(text))

\* bytes are described as the first len bytes of the encoding of a text;
\* valid tells whether they are UTF-8
\* request.encode(): the texts of the model are ASCII, one byte per character
encode(text) == [valid |-> TRUE, len |-> TextLen(text), of |-> text]

\* data.decode('utf-8')
decode(b) ==
    IF b.valid
    THEN [exc |-> NoExc, text |-> [len |-> b.len, of |-> b.of]]
    ELSE [exc |-> "UnicodeDecodeError", text |-> [len |-> 0, of |-> <<>>]]

Min(a, b) == IF a <= b THEN a ELSE b

\* what the peer can have written when the client reads: nothing (it closed
\* the connection), a short reply, a reply of the size of one read, a longer
\* one; bytes that are no UTF-8 text
ReplyText == << <<"r", "e", "p", "l", "y">> >>
ReplyLens == {0, 2, RecvSize, RecvSize + 1}
Replies ==
    {[valid |-> v, len |-> n, of |-> ReplyText] :
        v \in BOOLEAN, n \in ReplyLens} \ {[valid |-> FALSE, len |-> 0, of |-> ReplyText]}

\* recv(RecvSize) on a socket where the bytes b are to come: at most RecvSize
\* of them, possibly fewer
RecvResults(b) ==
    {[valid |-> b.valid, len |-> n, of |-> b.of] :
        n \in IF b.len = 0 THEN {0} ELSE {1, Min(b.len, RecvSize)}}

---------------------------------------------------------------------------
(* Client: Client.get_cmd, Client.generate_request, Client.send_request *)

\* the server's variables, which the client's steps leave alone
server_vars == <<server, listener, pc, conn, data, cmds, idx, result, exc, resp, ran>>

\* before send_request is called
NoClient ==
    [pc |-> "Start", path |-> "none", file |-> <<>>,
     cmd |-> <<>>, status |-> FALSE, k |-> 0, request |-> [commands |-> <<>>],
     text |-> <<>>, uuids |-> 0, inputs |-> 0,
     connects |-> 0, sent |-> <<>>, recvs |-> 0,
     received |-> encode(<<>>), returned |-> [len |-> 0, of |-> <<>>],
     exc |-> NoExc]

ClientRaise(e) == [client EXCEPT !.pc = "Raised", !.exc = e]

\* socket.socket(...) and client_socket.connect((host, port))
ClientConnect ==
    /\ client.pc = "Start"
    /\ \/ client' = [client EXCEPT !.pc = "Connected", !.connects = @ + 1]
       \/ client' = [ClientRaise("ConnectionRefusedError") EXCEPT !.connects = @ + 1]
    /\ UNCHANGED server_vars

\* get_cmd on a file with lines: the stripped lines, in order
GetCmdFile ==
    /\ client.pc = "Connected"
    /\ client.path = "file"
    /\ client.file # <<>>
    /\ client' = [client EXCEPT !.pc = "Loop", !.status = TRUE,
                     !.cmd = [i \in 1..Len(client.file) |-> strip(client.file[i])]]
    /\ UNCHANGED server_vars

\* get_cmd on the path of no file: FileNotFoundError; generate_request
\* passes the failure on
GetCmdMissing ==
    /\ client.pc = "Connected"
    /\ client.path = "missing"
    /\ client' = [client EXCEPT !.pc = "Built", !.status = FALSE]
    /\ UNCHANGED server_vars

\* a prompt that is skipped: the command list stays empty
GetCmdInput_NoPrompt ==
    /\ client.pc = "Connected"
    /\ \/ client.path = "none"
       \/ client.path = "file" /\ client.file = <<>>
    /\ \/ client' = [client EXCEPT !.pc = "Loop", !.status = TRUE]
       \/ client' = [ClientRaise("EOFError") EXCEPT !.inputs = @ + 1]
    /\ UNCHANGED server_vars

\* get_cmd without a path (open(None) raises TypeError) or on a file without
\* lines (raise TypeError): one call of input(), whose line is the one command
GetCmdInput ==
    /\ client.pc = "Connected"
    /\ \/ client.path = "none"
       \/ client.path = "file" /\ client.file = <<>>
    /\ \/ \E t \in Typed :
            client' = [client EXCEPT !.pc = "Loop", !.status = TRUE,
                          !.inputs = @ + 1, !.cmd = Append(@, t)]
       \/ client' = [ClientRaise("EOFError") EXCEPT !.inputs = @ + 1]
    /\ UNCHANGED server_vars

\* get_cmd on a file that cannot be opened: the error is not caught
GetCmdRaises ==
    /\ client.pc = "Connected"
    /\ client.path = "denied"
    /\ client' = ClientRaise("PermissionError")
    /\ UNCHANGED server_vars

\* one iteration of "for cmd in data" in generate_request
AppendCommand ==
    /\ client.pc = "Loop"
    /\ client.k < Len(client.cmd)
    /\ client' = [client EXCEPT
                     !.k = @ + 1,
                     !.uuids = @ + 1,
                     !.request.commands =
                         Append(@, [id |-> uuid4(client.uuids + 1),
                                    method |-> client.cmd[client.k + 1]])]
    /\ UNCHANGED server_vars

\* return True, json.dumps(request)
DumpRequest ==
    /\ client.pc = "Loop"
    /\ client.k = Len(client.cmd)
    /\ client' = [client EXCEPT !.pc = "Built", !.text = json_dumps(client.request)]
    /\ UNCHANGED server_vars

\* a write made whether or not a request was built
ClientSendAll_Unconditional ==
    /\ client.pc = "Built"
    /\ client' = [client EXCEPT
                     !.pc = "Sent",
                     !.sent = Append(@, [bytes |-> encode(client.text),
                                         complete |-> TRUE])]
    /\ UNCHANGED server_vars

\* if status: client_socket.sendall(request.encode())
ClientSendAll ==
    /\ client.pc = "Built"
    /\ client.status
    /\ client' = [client EXCEPT
                     !.pc = "Sent",
                     !.sent = Append(@, [bytes |-> encode(client.text),
                                         complete |-> TRUE])]
    /\ UNCHANGED server_vars

\* sendall raises: the peer has reset the connection
ClientSendFails ==
    /\ client.pc = "Built"
    /\ client.status
    /\ client' = [ClientRaise("BrokenPipeError") EXCEPT
                     !.sent = Append(@, [bytes |-> encode(client.text),
                                         complete |-> FALSE])]
    /\ UNCHANGED server_vars

\* the read is due: after the write, or at once when nothing is to be sent
ReadDue ==
    \/ client.pc = "Sent"
    \/ client.pc = "Built" /\ ~client.status

\* a read that is repeated while the peer has more
ClientRecv_Loops ==
    /\ ReadDue
    /\ \E b \in Replies : \E r \in RecvResults(b) :
         client' = [client EXCEPT
                       !.pc = IF r.len < b.len /\ client.recvs = 0
                              THEN client.pc ELSE "Received",
                       !.recvs = @ + 1, !.received = r]
    /\ UNCHANGED server_vars

\* data = client_socket.recv(1024)
ClientRecv ==
    /\ ReadDue
    /\ \E b \in Replies : \E r \in RecvResults(b) :
         client' = [client EXCEPT !.pc = "Received", !.recvs = @ + 1,
                                  !.received = r]
    /\ UNCHANGED server_vars

\* recv raises: the peer has reset the connection
ClientRecvRaises ==
    /\ ReadDue
    /\ client' = [ClientRaise("ConnectionResetError") EXCEPT !.recvs = @ + 1]
    /\ UNCHANGED server_vars

\* return data.decode('utf-8')
ClientReturn ==
    /\ client.pc = "Received"
    /\ LET d == decode(client.received)
       IN  IF d.exc = NoExc
           THEN client' = [client EXCEPT !.pc = "Returned", !.returned = d.text]
           ELSE client' = ClientRaise(d.exc)
    /\ UNCHANGED server_vars

---------------------------------------------------------------------------
(* Specification of the server: the listener and one worker per connection *)

\* a command object with a string method, with the id i or without id
WireEntry(i, hi) ==
    [type |-> "object", has_id |-> hi, id |-> IF hi THEN i ELSE "", has_method |-> TRUE,
     method_type |-> "string"]

\* the payload {"commands": items}
WireBatch(items) ==
    [kind |-> "json",
     top |-> [type |-> "object", has_commands |-> TRUE,
              commands |-> [type |-> "array", items |-> items]]]

\* the requests the peers of the model send: a valid batch of up to MaxBatch
\* commands, a batch whose command lacks its id, an object without "commands",
\* text that is no JSON, bytes that are no text
WirePayloads ==
    { WireBatch([i \in 1..n |-> WireEntry("a", TRUE)]) : n \in 0..MaxBatch }
    \cup { WireBatch(<<WireEntry("", FALSE)>>),
           [kind |-> "json",
            top |-> [type |-> "object", has_commands |-> FALSE, commands |-> NoCommands]],
           [kind |-> "not_json", top |-> NoTop],
           [kind |-> "invalid_utf8", top |-> NoTop] }

\* the outcomes of the commands the peers of the model send: success, command
\* not found, timeout
WireOutcomes ==
    { [kind |-> "exit", returncode |-> 0, stdout |-> <<"h", "i">>, stderr |-> <<>>,
       exc |-> NoExc],
      [kind |-> "exit", returncode |-> 127, stdout |-> <<>>,
       stderr |-> <<"e", ":", " ", "n", "o", "t", " ", "f", "o", "u", "n", "d">>,
       exc |-> NoExc],
      [kind |-> "raise", returncode |-> 0, stdout |-> <<>>, stderr |-> <<>>,
       exc |-> "TimeoutExpired"] }

Init ==
    /\ server = ServerInit
    /\ listener = NoListener
    /\ conn = [c \in Conns |-> NoConn]
    /\ pc = [c \in Conns |-> "NotAccepted"]
    /\ data = [c \in Conns |-> NoData]
    /\ cmds = [c \in Conns |-> <<>>]
    /\ idx = [c \in Conns |-> 0]
    /\ result = [c \in Conns |-> <<>>]
    /\ exc = [c \in Conns |-> NoExc]
    /\ resp = [c \in Conns |-> NoResp]
    /\ ran = [c \in Conns |-> <<>>]
    /\ client = NoClient

\* the steps of the worker of connection c
Worker(c) ==
    \/ SetTimeout(c)
    \/ RecvData(c, WirePayloads)
    \/ RecvEmpty(c)
    \/ RecvRaises(c)
    \/ ParserDecode(c)
    \/ ExecStart(c)
    \/ ExecFinish(c, WireOutcomes)
    \/ ParserReturn(c)
    \/ ParserExcept(c)
    \/ SendAll(c)
    \/ SendFails(c)
    \/ Close(c)

Next ==
    \/ Listen
    \/ \E c \in Conns : Accept(c)
    \/ Spawn
    \/ \E c \in Conns : Worker(c)

Spec == Init /\ [][Next]_vars

---------------------------------------------------------------------------
(* The server under fair scheduling, with one client that may stall *)

\* the connection whose client is slow: its worker may wait for ever in its
\* read, and its commands may run for ever long
Stalled == "c1"

\* a connection served next to it
Served == "c2"

\* the steps of a worker once its read has returned data: none of them waits
\* for the peer, and a command ends or hits the command timeout
AfterRead(c) ==
    \/ ParserDecode(c)
    \/ ExecStart(c)
    \/ ExecFinish(c, WireOutcomes)
    \/ ParserReturn(c)
    \/ ParserExcept(c)
    \/ SendAll(c)
    \/ SendFails(c)
    \/ Close(c)

\* every thread is scheduled again and again: the listener, and the worker of
\* every connection but the stalled one after its read
SpecFair ==
    /\ Spec
    /\ WF_vars(Listen)
    /\ WF_vars(Spawn)
    /\ \A c \in Conns \ {Stalled} : WF_vars(AfterRead(c))

---------------------------------------------------------------------------
(* The server under fair scheduling, every wait bounded *)

\* every thread is scheduled again and again, and no step of a worker waits
\* for ever: the read ends with data, with the peer's close or with the idle
\* timeout, a command ends or hits the command timeout, the write completes
\* or fails
SpecLive ==
    /\ Spec
    /\ WF_vars(Listen)
    /\ WF_vars(Spawn)
    /\ \A c \in Conns : WF_vars(Worker(c))

---------------------------------------------------------------------------
(* Specification of one call of request_parser, on any payload *)

\* the frame of the call
Caller == "c1"

InitParser ==
    /\ server = ServerInit
    /\ listener = NoListener
    /\ conn = [c \in Conns |-> NoConn]
    /\ pc = [c \in Conns |-> IF c = Caller THEN "Decode" ELSE "NotAccepted"]
    /\ \E d \in Payloads : data = [c \in Conns |-> IF c = Caller THEN d ELSE NoData]
    /\ cmds = [c \in Conns |-> <<>>]
    /\ idx = [c \in Conns |-> 0]
    /\ result = [c \in Conns |-> <<>>]
    /\ exc = [c \in Conns |-> NoExc]
    /\ resp = [c \in Conns |-> NoResp]
    /\ ran = [c \in Conns |-> <<>>]
    /\ client = NoClient

NextParser ==
    \/ ParserDecode(Caller)
    \/ ExecStart(Caller)
    \/ ExecFinish(Caller, ProcessOutcomes)
    \/ ParserReturn(Caller)
    \/ ParserExcept(Caller)

SpecParser == InitParser /\ [][NextParser]_vars

---------------------------------------------------------------------------
(* Specification of one call of Client.send_request *)

InitClient ==
    /\ server = ServerInit
    /\ listener = NoListener
    /\ conn = [c \in Conns |-> NoConn]
    /\ pc = [c \in Conns |-> "NotAccepted"]
    /\ data = [c \in Conns |-> NoData]
    /\ cmds = [c \in Conns |-> <<>>]
    /\ idx = [c \in Conns |-> 0]
    /\ result = [c \in Conns |-> <<>>]
    /\ exc = [c \in Conns |-> NoExc]
    /\ resp = [c \in Conns |-> NoResp]
    /\ ran = [c \in Conns |-> <<>>]
    /\ \E p \in FilePaths : \E f \in Files :
         /\ p # "file" => f = <<>>
         /\ client = [NoClient EXCEPT !.path = p, !.file = f]

NextClient ==
    \/ ClientConnect
    \/ GetCmdFile
    \/ GetCmdMissing
    \/ GetCmdInput
    \/ GetCmdRaises
    \/ AppendCommand
    \/ DumpRequest
    \/ ClientSendAll
    \/ ClientSendFails
    \/ ClientRecv
    \/ ClientRecvRaises
    \/ ClientReturn

SpecClient == InitClient /\ [][NextClient]_vars

---------------------------------------------------------------------------
(* Specification of one call of Client.send_request against the server *)

\* the connection the client opens
ClientConn == "c1"

\* connect has succeeded
ClientConnected == client.connects = 1 /\ client.exc # "ConnectionRefusedError"

\* send_request has ended and the with block has closed the client's socket
ClientClosed == client.pc \in {"Returned", "Raised"}

\* a server that goes on reading until the whole request has arrived
ToPayload_Reassembled(r) ==
    LET sent == RequestCommands(r.of)
    IN  WireBatch([i \in DOMAIN sent |->
                      [type |-> "object", has_id |-> TRUE, id |-> sent[i].id,
                       has_method |-> TRUE, method_type |-> "string"]])

\* what json.loads makes of the bytes r the server's read returned: the first
\* r.len bytes of the request text.  A proper prefix of the text of a JSON
\* object is no JSON; the whole text is the object with its commands
ToPayload(r) ==
    IF r.len < TextLen(r.of)
    THEN [kind |-> "not_json", top |-> NoTop]
    ELSE LET sent == RequestCommands(r.of)
         IN  WireBatch([i \in DOMAIN sent |->
                           [type |-> "object", has_id |-> TRUE, id |-> sent[i].id,
                            has_method |-> TRUE, method_type |-> "string"]])

\* the client connects to the listening socket
WireConnect ==
    /\ listener.pc # "init"
    /\ ClientConnect

\* the listener accepts the client's connection
WireAccept ==
    /\ ClientConnected
    /\ Accept(ClientConn)

\* the server's read returns bytes the client has written
WireRecvData(c) ==
    /\ client.sent # <<>>
    /\ \E r \in RecvResults(client.sent[1].bytes) : RecvData(c, {ToPayload(r)})

\* the server's read returns b"": the client has closed without writing
WireRecvEmpty(c) ==
    /\ ClientClosed
    /\ client.sent = <<>>
    /\ RecvEmpty(c)

\* the server's read raises socket.timeout: conn_timeout, set on the socket,
\* has passed without a byte from the client
WireRecvTimeout(c) ==
    /\ conn[c].timeout = server.conn_timeout
    /\ RecvRaises(c)
    /\ conn'[c].note = "timeout"

\* the client's write fails: the server has closed the connection
WireSendFails ==
    /\ conn[ClientConn].state = "closed"
    /\ ClientSendFails

\* the client's read returns what the server wrote, or b"" when the server
\* closed the connection without writing
WireClientRecv ==
    /\ ClientRecv
    /\ \/ /\ conn[ClientConn].sent # <<>>
          /\ client'.received.len > 0
          /\ client'.received.valid
       \/ /\ conn[ClientConn].sent = <<>>
          /\ conn[ClientConn].state = "closed"
          /\ client'.received.len = 0

\* the client's read raises: the server closed the connection while bytes of
\* the client were unread, which resets it
WireClientReset ==
    /\ conn[ClientConn].state = "closed"
    /\ client.sent # <<>>
    /\ data[ClientConn].kind # "json"
    /\ ClientRecvRaises

\* the steps of the worker of the client's connection
WireWorker(c) ==
    \/ SetTimeout(c)
    \/ WireRecvData(c)
    \/ WireRecvEmpty(c)
    \/ WireRecvTimeout(c)
    \/ ParserDecode(c)
    \/ ExecStart(c)
    \/ ExecFinish(c, WireOutcomes)
    \/ ParserReturn(c)
    \/ ParserExcept(c)
    \/ SendAll(c)
    \/ SendFails(c)
    \/ Close(c)

NextWire ==
    \/ Listen
    \/ WireConnect
    \/ WireAccept
    \/ Spawn
    \/ WireWorker(ClientConn)
    \/ GetCmdFile
    \/ GetCmdMissing
    \/ GetCmdInput
    \/ GetCmdRaises
    \/ AppendCommand
    \/ DumpRequest
    \/ ClientSendAll
    \/ WireSendFails
    \/ WireClientRecv
    \/ WireClientReset
    \/ ClientReturn

SpecWire == InitClient /\ [][NextWire]_vars

---------------------------------------------------------------------------
(* Vocabulary of the properties *)

\* request_parser has returned (or was left by an exception) in frame c
Returned(c) == resp[c] # NoResp

\* a request as the protocol defines it: an object whose "commands" is an
\* array of objects, each with an id and a string method
ValidRequest(d) ==
    /\ d.kind = "json"
    /\ d.top.type = "object"
    /\ d.top.has_commands
    /\ d.top.commands.type = "array"
    /\ \A i \in DOMAIN d.top.commands.items :
         LET e == d.top.commands.items[i]
         IN  e.type = "object" /\ e.has_id /\ e.has_method /\ e.method_type = "string"

\* the commands of a request
Commands(d) == d.top.commands.items

\* every execution made so far in frame c returned normally
AllExited(c) == \A k \in DOMAIN ran[c] : ran[c][k].run.kind = "exit"

\* the text s contains "not found": s = prefix \o "not found" \o suffix
HasNotFound(s) ==
    \E i \in 0..Len(s) :
        /\ i + Len(NotFound) <= Len(s)
        /\ s = SubSeq(s, 1, i) \o NotFound \o SubSeq(s, i + Len(NotFound) + 1, Len(s))

\* the fields of a CommandResult
ResultFields == {"status", "stdout", "stderr", "error_code", "id"}

\* a parseable payload with a required field missing: no "commands" at the
\* top level, or an element of "commands" without id or without method
LacksRequiredField(d) ==
    /\ d.kind = "json"
    /\ \/ ~d.top.has_commands
       \/ \E i \in DOMAIN d.top.commands.items :
            ~d.top.commands.items[i].has_id \/ ~d.top.commands.items[i].has_method

---------------------------------------------------------------------------
(* Properties of request_parser and execute_cmd *)

\* C1: for a valid request with N >= 0 commands whose executions all return
\* normally, request_parser returns a sequence response with exactly N
\* results, and the i-th result carries the id of the i-th command.
C1_PositionalIds ==
    \A c \in Conns :
        (Returned(c) /\ ValidRequest(data[c]) /\ AllExited(c)) =>
            /\ resp[c].shape = "sequence"
            /\ Len(resp[c].response) = Len(Commands(data[c]))
            /\ \A i \in DOMAIN resp[c].response :
                 resp[c].response[i].id = Commands(data[c])[i].id

\* a valid two-command request whose commands share one id has been answered
\* with two results
C1_Witness ==
    \E c \in Conns :
        /\ Returned(c) /\ ValidRequest(data[c]) /\ AllExited(c)
        /\ Len(Commands(data[c])) = 2
        /\ Commands(data[c])[1].id = Commands(data[c])[2].id
        /\ Len(resp[c].response) = 2

C3_ExceptionYieldsSingleton4 ==
    \A c \in Conns :
        (Returned(c) /\ ValidRequest(data[c]) /\ ~AllExited(c)) =>
            resp[c] = [shape |-> "singleton",
                       response |-> [status |-> FALSE, error_code |-> 4]]

\* the only command of a valid request raised and request_parser has returned
C3_Witness ==
    \E c \in Conns :
        /\ Returned(c) /\ ValidRequest(data[c])
        /\ Len(Commands(data[c])) = 1
        /\ Len(ran[c]) = 1
        /\ ran[c][1].run.kind = "raise"

\* C4: request_parser is total: from every payload its steps lead to a
\* return, never to an exception leaving it, and what it returns is a sequence
\* of CommandResults or the singleton error object with status=false.
C4_ParserTotal ==
    \A c \in Conns :
        /\ pc[c] \in {"Decode", "Loop", "Execute", "Except"} =>
             ENABLED (\/ ParserDecode(c) \/ ExecStart(c)
                      \/ ExecFinish(c, ProcessOutcomes)
                      \/ ParserReturn(c) \/ ParserExcept(c))
        /\ pc[c] = "Done" => Returned(c)
        /\ Returned(c) =>
             /\ resp[c].shape \in {"sequence", "singleton"}
             /\ resp[c].shape = "singleton" => resp[c].response.status = FALSE
             /\ resp[c].shape = "sequence" =>
                  \A i \in DOMAIN resp[c].response :
                      DOMAIN resp[c].response[i] = ResultFields

\* request_parser has returned on a JSON payload whose top-level value is
\* not an object
C4_Witness ==
    \E c \in Conns :
        /\ Returned(c)
        /\ data[c].kind = "json"
        /\ data[c].top.type \in {"array", "string", "number", "null"}

\* C5: every payload that does not parse as JSON (bytes that are no valid
\* text included) yields the singleton error with status=false, error_code=1.
C5_UnparseableYields1 ==
    \A c \in Conns :
        (Returned(c) /\ data[c].kind \in {"invalid_utf8", "not_json"}) =>
            resp[c] = [shape |-> "singleton",
                       response |-> [status |-> FALSE, error_code |-> 1]]

\* C6: every parseable payload that lacks a required field, whatever the JSON
\* types involved, yields the singleton error with status=false, error_code=2.
C6_MissingFieldYields2 ==
    \A c \in Conns :
        (Returned(c) /\ LacksRequiredField(data[c])) =>
            resp[c] = [shape |-> "singleton",
                       response |-> [status |-> FALSE, error_code |-> 2]]

\* C7: whenever request_parser answers with batch-level error code 1 or 2,
\* no command of that request has been executed.
C7_DecodeErrorsShortCircuit ==
    \A c \in Conns :
        (Returned(c) /\ resp[c].shape = "singleton"
            /\ resp[c].response.error_code \in {1, 2}) =>
            ran[c] = <<>>

\* C8: for every finished subprocess, the dict execute_cmd returned has status
\* true iff the exit code is zero, the captured stdout and stderr, and
\* error_code 3 if stderr contains "not found" and 0 otherwise; error_code does
\* not depend on the exit code, nor status on stderr.
C8_ExecuteCmdContract ==
    \A c \in Conns : \A k \in DOMAIN ran[c] :
        ran[c][k].run.kind = "exit" =>
            /\ k <= Len(result[c])
            /\ result[c][k].status = (ran[c][k].run.returncode = 0)
            /\ result[c][k].stdout = ran[c][k].run.stdout
            /\ result[c][k].stderr = ran[c][k].run.stderr
            /\ result[c][k].error_code =
                 (IF HasNotFound(ran[c][k].run.stderr) THEN 3 ELSE 0)
            /\ \A j \in DOMAIN ran[c] :
                 ran[c][j].run.kind = "exit" =>
                   /\ ran[c][j].run.stderr = ran[c][k].run.stderr =>
                        result[c][j].error_code = result[c][k].error_code
                   /\ ran[c][j].run.returncode = ran[c][k].run.returncode =>
                        result[c][j].status = result[c][k].status

\* one batch ran a command that exited 127 with "not found" on stderr and a
\* command that exited 0 with "Not found" on stderr
C8_Witness ==
    \E c \in Conns :
        /\ Len(result[c]) = 2
        /\ ran[c][1].run.returncode = 127 /\ HasNotFound(ran[c][1].run.stderr)
        /\ result[c][1].error_code = 3
        /\ ran[c][2].run.returncode = 0 /\ ran[c][2].run.stderr # <<>>
        /\ result[c][2].error_code = 0 /\ result[c][2].status

\* C9 as stated: a command whose stderr contains "not found" yields
\* status=false and error_code=3 whatever its exit code.
C9_NotFoundAsStated ==
    \A c \in Conns : \A k \in DOMAIN ran[c] :
        (ran[c][k].run.kind = "exit" /\ HasNotFound(ran[c][k].run.stderr)) =>
            /\ result[c][k].status = FALSE
            /\ result[c][k].error_code = 3

\* C9 amended: a command whose stderr contains "not found" yields error_code=3
\* whatever its exit code, and status=false exactly when the exit code is not
\* zero (status=true with exit code zero).
C9_NotFoundCode3 ==
    \A c \in Conns : \A k \in DOMAIN ran[c] :
        (ran[c][k].run.kind = "exit" /\ HasNotFound(ran[c][k].run.stderr)) =>
            /\ result[c][k].error_code = 3
            /\ result[c][k].status = FALSE <=> ran[c][k].run.returncode # 0

\* a command exited 0 with "not found" on stderr and its result is in the list
C9_Witness ==
    \E c \in Conns : \E k \in DOMAIN result[c] :
        /\ ran[c][k].run.returncode = 0
        /\ HasNotFound(ran[c][k].run.stderr)
        /\ result[c][k].error_code = 3

\* C10: a command that ends with a nonzero exit code or a not-found
\* classification suppresses no sibling: when all commands of a valid batch
\* finish, every one was executed, in order, and the i-th result's status,
\* stdout, stderr and error_code are those of the i-th command's outcome.
C10_FailureKeepsSiblings ==
    \A c \in Conns :
        (Returned(c) /\ ValidRequest(data[c]) /\ AllExited(c)) =>
            /\ Len(ran[c]) = Len(Commands(data[c]))
            /\ resp[c].shape = "sequence"
            /\ DOMAIN resp[c].response = DOMAIN ran[c]
            /\ \A i \in DOMAIN ran[c] :
                 LET r == resp[c].response[i]
                     o == ran[c][i].run
                 IN  /\ ran[c][i].pos = i
                     /\ r.status = (o.returncode = 0)
                     /\ r.stdout = o.stdout
                     /\ r.stderr = o.stderr
                     /\ r.error_code = (IF HasNotFound(o.stderr) THEN 3 ELSE 0)

\* the first command of a batch failed as not found, the second succeeded, and
\* both results were returned
C10_Witness ==
    \E c \in Conns :
        /\ Returned(c) /\ resp[c].shape = "sequence"
        /\ Len(resp[c].response) = 2
        /\ resp[c].response[1].status = FALSE
        /\ resp[c].response[1].error_code = 3
        /\ resp[c].response[2].status = TRUE
        /\ resp[c].response[2].stdout = <<"h", "i">>

---------------------------------------------------------------------------
(* Properties of handle_client and start *)

\* the single read of connection c returned non-empty bytes
ReadData(c) == conn[c].recvs >= 1 /\ data[c] # NoData

\* the single read of connection c returned b"" or raised
ReadFailed(c) == conn[c].recvs >= 1 /\ data[c] = NoData

\* conn.sendall raised on connection c
WriteFailed(c) == Returned(c) /\ conn[c].note = "error"

\* exactly one write was made on connection c, of the whole response
WroteResponse(c) == conn[c].sent = <<[bytes |-> resp[c], complete |-> TRUE]>>

\* C11: on every connection whose read returned non-empty bytes, whatever
\* they hold, the bytes were passed to request_parser and exactly one full
\* response was written before the connection was closed (a write that the
\* transport fails is left aside).
C11_DataAlwaysAnswered ==
    \A c \in Conns :
        (pc[c] = "Closed" /\ ReadData(c) /\ ~WriteFailed(c)) =>
            /\ Returned(c)
            /\ WroteResponse(c)

\* C12: on every exit path of handle_client the connection is closed, and
\* closed exactly once: a worker that has ended left its connection closed by
\* one close call, no close happens before the end, and a worker that has not
\* ended always has a step to take.
C12_ClosedExactlyOnce ==
    \A c \in Conns :
        /\ conn[c].closes <= 1
        /\ pc[c] = "Closed" <=> conn[c].closes = 1
        /\ pc[c] = "Closed" <=> conn[c].state = "closed"
        /\ pc[c] \notin {"NotAccepted", "Closed"} =>
             /\ conn[c].state = "open"
             /\ ENABLED Worker(c)

\* a worker whose write failed has ended with its connection closed once
C12_Witness ==
    \E c \in Conns :
        /\ pc[c] = "Closed"
        /\ WriteFailed(c)
        /\ conn[c].closes = 1

\* C13: a connection whose read yields zero bytes, times out or raises is
\* closed with nothing written back, without request_parser being called and
\* without any command executed.
C13_FailedReadSilent ==
    \A c \in Conns :
        ReadFailed(c) =>
            /\ conn[c].sent = <<>>
            /\ ~Returned(c)
            /\ ran[c] = <<>>
            /\ cmds[c] = <<>> /\ result[c] = <<>> /\ exc[c] = NoExc
            /\ pc[c] \in {"Closing", "Closed"}
            /\ conn[c].note \in {"empty", "timeout", "error"}

\* a connection whose read timed out has been closed
C13_Witness ==
    \E c \in Conns :
        /\ pc[c] = "Closed"
        /\ ReadFailed(c)
        /\ conn[c].note = "timeout"

\* C14: per connection the handler sets the idle timeout before the read,
\* reads exactly once, writes at most once and never before the read, and
\* reads nothing more once the response is written.
C14_OneReadOneWrite ==
    \A c \in Conns :
        /\ conn[c].recvs <= 1
        /\ Len(conn[c].sent) <= 1
        /\ conn[c].recvs = 1 => conn[c].timeout = server.conn_timeout
        /\ conn[c].sent # <<>> => conn[c].recvs = 1 /\ ReadData(c) /\ Returned(c)
        /\ pc[c] \in {"NotAccepted", "Idle", "Reading"} => conn[c].recvs = 0
        /\ pc[c] \notin {"NotAccepted", "Idle", "Reading"} => conn[c].recvs = 1

\* a connection was closed after one read and one write of the response
C14_Witness ==
    \E c \in Conns :
        /\ pc[c] = "Closed"
        /\ conn[c].recvs = 1
        /\ Len(conn[c].sent) = 1
        /\ conn[c].sent[1].complete


\* the connections accept has returned
Accepted == { c \in Conns : conn[c].state # "none" }

\* the connections a worker thread was started for
Started == { listener.started[i] : i \in DOMAIN listener.started }

\* C15: the listener starts exactly one worker per accepted connection, each
\* for its own connection; it never reads, dispatches, writes or closes an
\* accepted connection itself; and whenever it stands at accept it can accept
\* a connection, whatever the workers of earlier connections are doing.
C15_OneWorkerPerAccept ==
    /\ [](/\ Cardinality(Accepted)
               = Len(listener.started) + (IF listener.pc = "spawn" THEN 1 ELSE 0)
          /\ \A i, j \in DOMAIN listener.started :
               listener.started[i] = listener.started[j] => i = j
          /\ \A c \in Conns : pc[c] # "NotAccepted" <=> c \in Started
          /\ listener.pc = "spawn" =>
               /\ listener.conn \in Accepted \ Started
               /\ conn[listener.conn] = [NoConn EXCEPT !.state = "open"]
          /\ \A c \in Conns :
               (listener.pc = "accept" /\ c \notin Accepted) => ENABLED Accept(c))
    /\ [][listener' # listener =>
            /\ <<data, cmds, idx, result, exc, resp, ran>>'
                 = <<data, cmds, idx, result, exc, resp, ran>>
            /\ \A c \in Conns :
                 /\ conn'[c].recvs = conn[c].recvs
                 /\ conn'[c].sent = conn[c].sent
                 /\ conn'[c].closes = conn[c].closes
                 /\ conn'[c].timeout = conn[c].timeout]_vars

\* the second connection has been accepted while the worker of the first is
\* inside a command execution
C15_Witness ==
    \E c, d \in Conns :
        /\ c # d
        /\ pc[c] = "Execute"
        /\ listener.pc = "spawn"
        /\ listener.conn = d
        /\ listener.started = <<c>>


\* the batch of connection c was executed: every command ran, or the batch
\* was aborted by a command that raised
BatchExecuted(c) ==
    \/ Len(ran[c]) = Len(Commands(data[c]))
    \/ ~AllExited(c)

\* C16: a slow or stalled client blocks no other client: while the worker of
\* one connection waits in its read or in a command execution, the listener
\* can accept the other connection, and once the other connection has handed
\* in a valid request its batch is executed, its response is written (unless
\* its own write fails) and it is closed.
C16_StalledClientBlocksNobody ==
    /\ []((/\ pc[Stalled] \in {"Reading", "Execute"}
           /\ listener.pc = "accept"
           /\ Served \notin Accepted) => ENABLED Accept(Served))
    /\ (pc[Served] = "Decode" /\ ValidRequest(data[Served]))
         ~> (/\ pc[Served] = "Closed"
             /\ Returned(Served)
             /\ BatchExecuted(Served)
             /\ WroteResponse(Served) \/ WriteFailed(Served))

\* the stalled connection is still inside a command execution while the other
\* connection has had its batch executed and answered and is closed
C16_Witness ==
    /\ pc[Stalled] = "Execute"
    /\ pc[Served] = "Closed"
    /\ ValidRequest(data[Served])
    /\ Len(ran[Served]) = Len(Commands(data[Served]))
    /\ Len(ran[Served]) >= 1
    /\ WroteResponse(Served)


\* C20: within one connection the commands are executed one at a time, in
\* request order: the executions finished so far are those of the first
\* commands of the request, in order, and while a command is executing it is
\* the next command of the request and every earlier one has finished.
C20_SequentialInOrder ==
    \A c \in Conns :
        /\ \A k \in DOMAIN ran[c] : ran[c][k].pos = k
        /\ Len(ran[c]) \in {idx[c], idx[c] + 1}
        /\ Len(ran[c]) <= Len(cmds[c])
        /\ pc[c] \in {"Loop", "Execute"} => Len(ran[c]) = idx[c]
        /\ (ValidRequest(data[c]) /\ pc[c] \in {"Loop", "Execute"}) =>
             cmds[c] = Commands(data[c])
        /\ (ValidRequest(data[c]) /\ pc[c] = "Execute") =>
             /\ Len(ran[c]) < Len(Commands(data[c]))
             /\ cmds[c][idx[c] + 1] = Commands(data[c])[Len(ran[c]) + 1]
             /\ AllExited(c)

\* the second command of a valid request with two different commands is
\* executing and the first has finished
C20_Witness ==
    \E c \in Conns :
        /\ ValidRequest(data[c])
        /\ pc[c] = "Execute"
        /\ Len(ran[c]) = 1
        /\ Len(Commands(data[c])) = 2
        /\ Commands(data[c])[1] # Commands(data[c])[2]


---------------------------------------------------------------------------
(* Properties of the client *)

\* generate_request has returned (True, text)
RequestBuilt == client.status /\ client.text # <<>>

\* C17: the request generate_request builds from the strings get_cmd returned
\* holds exactly one command per string, in the order of the strings, with
\* the string as its method and with an id from a call of uuid4 of its own,
\* different from every other id of the request.
C17_OneCommandPerString ==
    RequestBuilt =>
        LET built == RequestCommands(client.text)
        IN  /\ json_dumps([commands |-> built]) = client.text
            /\ Len(client.cmd) >= 1
            /\ Len(built) = Len(client.cmd)
            /\ \A i \in DOMAIN built : built[i].method = client.cmd[i]
            /\ client.uuids = Len(built)
            /\ \A i \in DOMAIN built : \E n \in 1..client.uuids : built[i].id = uuid4(n)
            /\ \A i, j \in DOMAIN built : i # j => built[i].id # built[j].id

\* a request was built from two different strings
C17_Witness ==
    /\ RequestBuilt
    /\ Len(client.cmd) = 2
    /\ client.cmd[1] # client.cmd[2]
    /\ Len(RequestCommands(client.text)) = 2


\* get_cmd finds no command in a file: no path was given, or the file has
\* no lines
NoFileCommands ==
    \/ client.path = "none"
    \/ client.path = "file" /\ client.file = <<>>

\* C18: the client never sends an empty batch.  input() is called at most
\* once, and only when no path was given or the file has no lines; get_cmd
\* then returns exactly the one line typed; every request generate_request
\* builds, and every request written to the socket, holds at least one
\* command.
C18_NeverEmptyBatch ==
    /\ client.inputs <= 1
    /\ client.inputs = 1 => NoFileCommands
    /\ (NoFileCommands /\ client.status) =>
          /\ client.inputs = 1
          /\ Len(client.cmd) = 1
          /\ client.cmd[1] \in Typed
    /\ RequestBuilt => Len(RequestCommands(client.text)) >= 1
    /\ \A i \in DOMAIN client.sent :
          Len(RequestCommands(client.sent[i].bytes.of)) >= 1

\* the request typed at the prompt because the command file was empty has
\* been written to the socket
C18_Witness ==
    /\ client.path = "file"
    /\ client.file = <<>>
    /\ client.inputs = 1
    /\ client.sent # <<>>
    /\ Len(RequestCommands(client.sent[1].bytes.of)) = 1


\* send_request has returned a text
ClientReturned == client.pc = "Returned"

\* C19: a call of send_request that builds its request connects once, writes
\* the whole encoded request with one sendall, then reads once, at most
\* RecvSize bytes, and returns those bytes decoded; it never connects, writes
\* or reads a second time, whatever the peer still has to deliver.
C19_OneConnectOneWriteOneRead ==
    /\ client.connects <= 1
    /\ Len(client.sent) <= 1
    /\ client.recvs <= 1
    /\ client.received.len <= RecvSize
    /\ client.sent # <<>> =>
          /\ RequestBuilt
          /\ client.connects = 1
          /\ client.recvs = 0 \/ client.sent[1].complete
          /\ client.sent[1].bytes = encode(client.text)
          /\ client.sent[1].bytes.len = TextLen(client.text)
    /\ (RequestBuilt /\ client.recvs = 1) =>
          client.sent = <<[bytes |-> encode(client.text), complete |-> TRUE]>>
    /\ (RequestBuilt /\ ClientReturned) =>
          /\ client.connects = 1
          /\ client.recvs = 1
          /\ client.received.valid
          /\ client.returned = decode(client.received).text
          /\ client.returned.len = client.received.len

\* the call returned after one read that delivered less than the peer had
\* written
C19_Witness ==
    /\ RequestBuilt
    /\ ClientReturned
    /\ client.recvs = 1
    /\ client.received.len = 1
    /\ Len(client.sent) = 1


---------------------------------------------------------------------------
(* Properties of the batch as a whole *)

C22_WorkerReachesClosed ==
    \A c \in Conns :
        (conn[c].state = "open") ~> (pc[c] = "Closed" /\ conn[c].state = "closed")

\* a worker has ended after a command of its batch hit the command timeout
C22_Witness ==
    \E c \in Conns :
        /\ pc[c] = "Closed"
        /\ conn[c].state = "closed"
        /\ ran[c] # <<>>
        /\ ~AllExited(c)


\* C26: the error codes are partitioned by the shape of the response: every
\* result of a sequence response carries error_code 0 or 3, the singleton
\* error response carries status false and error_code 1, 2 or 4, and
\* request_parser returns one of the two shapes; code 4 is never the code of
\* a single command's result.
C26_CodesPartitionedByShape ==
    \A c \in Conns :
        /\ \A i \in DOMAIN result[c] : result[c][i].error_code \in {0, 3}
        /\ Returned(c) =>
             /\ resp[c].shape \in {"sequence", "singleton"}
             /\ resp[c].shape = "sequence" =>
                  \A i \in DOMAIN resp[c].response :
                      resp[c].response[i].error_code \in {0, 3}
             /\ resp[c].shape = "singleton" =>
                  /\ resp[c].response.status = FALSE
                  /\ resp[c].response.error_code \in {1, 2, 4}

\* a batch whose second command failed exceptionally was answered by the
\* singleton error 4, after a first command whose result carried code 3
C26_Witness ==
    \E c \in Conns :
        /\ Returned(c)
        /\ resp[c] = ErrorResponse(4)
        /\ Len(ran[c]) = 2
        /\ Len(result[c]) = 1
        /\ result[c][1].error_code = 3


\* C28: after construction no step of the listener, of a worker, of the
\* dispatcher or of the executor changes the Server's host, port, command
\* timeout or connection timeout; every command of every connection runs
\* under the command timeout set at construction, and every connection gets
\* the connection timeout set at construction.
C28_ConfigReadOnly ==
    /\ [][server' = server]_vars
    /\ [](/\ server = ServerInit
          /\ \A c \in Conns :
               /\ \A k \in DOMAIN ran[c] : ran[c][k].timeout = ServerInit.cmd_timeout
               /\ conn[c].timeout \in {"none", ServerInit.conn_timeout}
               /\ pc[c] \notin {"NotAccepted", "Idle"} =>
                    conn[c].timeout = ServerInit.conn_timeout)

\* both connections have executed commands
C28_Witness ==
    /\ \A c \in Conns : ran[c] # <<>> /\ conn[c].timeout = ServerInit.conn_timeout
    /\ \E c \in Conns : Len(ran[c]) = 2


---------------------------------------------------------------------------
(* request_parser as a function of its input and of the outcomes of its own
   subprocesses *)

\* what request_parser returns when the exception e is raised in its try block
ExceptionResponse(e) ==
    LET k == Selected(e, ParserHandlers)
    IN  IF k = 0 THEN Raised(e) ELSE ErrorResponse(ParserErrorCodes[k])

\* the loop over the commands items, given the outcomes runs of the
\* subprocesses in the order they were started and the results acc so far
RECURSIVE LoopResponse(_, _, _)
LoopResponse(items, runs, acc) ==
    IF items = <<>> THEN SequenceResponse(acc)
    ELSE LET cmd == Head(items)
         IN  IF GetItemExc(cmd, cmd.has_method) # NoExc
             THEN ExceptionResponse(GetItemExc(cmd, cmd.has_method))
             ELSE IF runs = <<>> THEN NoResp
             ELSE IF Head(runs).kind = "raise"
             THEN ExceptionResponse(Head(runs).exc)
             ELSE IF GetItemExc(cmd, cmd.has_id) # NoExc
             THEN ExceptionResponse(GetItemExc(cmd, cmd.has_id))
             ELSE LoopResponse(Tail(items), Tail(runs),
                               Append(acc, UpdateId(execute_cmd(Head(runs)), cmd.id)))

\* the response to the bytes d when the subprocesses end as runs
ResponseOf(d, runs) ==
    LET j == json_loads(d)
        g == GetCommands(j.value)
        it == Iterate(g.value)
    IN  IF j.exc # NoExc THEN ExceptionResponse(j.exc)
        ELSE IF g.exc # NoExc THEN ExceptionResponse(g.exc)
        ELSE IF it.exc # NoExc THEN ExceptionResponse(it.exc)
        ELSE LoopResponse(it.items, runs, <<>>)

\* the outcomes of the subprocesses of connection c, in the order they ran
Runs(c) == [k \in DOMAIN ran[c] |-> ran[c][k].run]

\* nothing has happened on connection c yet
Untouched(c) ==
    /\ data[c] = NoData
    /\ cmds[c] = <<>> /\ idx[c] = 0 /\ result[c] = <<>>
    /\ exc[c] = NoExc /\ resp[c] = NoResp /\ ran[c] = <<>>
    /\ conn[c].sent = <<>> /\ conn[c].recvs = 0

\* C27: what is written on a connection is a function of the bytes read from
\* it and of the outcomes of its own subprocesses: the response request_parser
\* returns, and every write on the connection, equal the response computed
\* from these two alone, whatever the other connection does and however the
\* workers interleave; and a connection starts with nothing left over from
\* the connections served before or beside it.
C27_ResponseFromOwnInput ==
    \A c \in Conns :
        /\ pc[c] \in {"NotAccepted", "Idle", "Reading"} => Untouched(c)
        /\ Returned(c) => resp[c] = ResponseOf(data[c], Runs(c))
        /\ \A i \in DOMAIN conn[c].sent :
             conn[c].sent[i].bytes = ResponseOf(data[c], Runs(c))

\* a connection has been answered with the results of its two commands while
\* the other one, closed before, had handed in another request
C27_Witness ==
    \E c, d \in Conns :
        /\ c # d
        /\ pc[d] = "Closed" /\ Returned(d)
        /\ data[d] # data[c]
        /\ WroteResponse(c)
        /\ resp[c].shape = "sequence"
        /\ Len(resp[c].response) = 2
        /\ resp[d] # resp[c]


---------------------------------------------------------------------------
(* Properties of the client against the server *)

\* generate_request has returned (False, message): the command file was not
\* found
RequestFailed ==
    /\ ~client.status
    /\ client.pc \in {"Built", "Received", "Returned"}

\* C23: when generate_request fails because the command file is not found,
\* the connection is open already, the client writes nothing and makes its one
\* read; the server receives nothing, executes nothing and writes nothing on
\* the connection; the client's read returns only once the server's read has
\* timed out and the server has closed the connection, and it returns no
\* bytes, so that send_request returns the empty text.
C23_FailedBuildWaitsForTimeout ==
    RequestFailed =>
        /\ client.path = "missing"
        /\ client.connects = 1
        /\ client.sent = <<>>
        /\ conn[ClientConn].sent = <<>>
        /\ data[ClientConn] = NoData
        /\ ran[ClientConn] = <<>>
        /\ ~Returned(ClientConn)
        /\ client.pc = "Built" => client.recvs = 0
        /\ client.pc \in {"Received", "Returned"} =>
             /\ client.recvs = 1
             /\ client.received.len = 0
             /\ pc[ClientConn] = "Closed"
             /\ conn[ClientConn].state = "closed"
             /\ conn[ClientConn].note = "timeout"
        /\ ClientReturned => client.returned.len = 0

\* send_request has returned the empty text after a failed build
C23_Witness ==
    /\ RequestFailed
    /\ ClientReturned
    /\ client.recvs = 1
    /\ conn[ClientConn].note = "timeout"


\* the client is building its request: get_cmd reads the file or waits at
\* the prompt, generate_request loops over the commands
Building == client.pc \in {"Connected", "Loop"}

\* the server's read of the client's connection has timed out
IdleTimedOut == conn[ClientConn].note = "timeout"

\* C24: send_request connects before it builds the request, and the server's
\* idle timer runs meanwhile: whenever the worker is in its read while the
\* client is still building, the read can time out.  Once it has, the server
\* has read nothing and never will, executes no command and writes nothing,
\* and what the client's read returns is empty: no structured response.
C24_TimeoutDuringBuild ==
    /\ (client.inputs > 0 \/ client.cmd # <<>> \/ client.text # <<>>) =>
          client.connects = 1
    /\ (Building /\ pc[ClientConn] = "Reading") => ENABLED WireRecvTimeout(ClientConn)
    /\ IdleTimedOut =>
          /\ data[ClientConn] = NoData
          /\ ran[ClientConn] = <<>>
          /\ ~Returned(ClientConn)
          /\ conn[ClientConn].sent = <<>>
          /\ conn[ClientConn].recvs = 1
          /\ pc[ClientConn] \in {"Closing", "Closed"}
          /\ client.pc \in {"Received", "Returned"} => client.received.len = 0
          /\ ClientReturned => client.returned.len = 0

\* the server's read timed out while the client waited at its prompt; the
\* request written afterwards was never read and send_request returned the
\* empty text
C24_Witness ==
    /\ IdleTimedOut
    /\ pc[ClientConn] = "Closed"
    /\ client.inputs = 1
    /\ Len(client.sent) = 1
    /\ client.sent[1].complete
    /\ ClientReturned
    /\ client.returned.len = 0


\* the client has written a request longer than one read of the server
OversizedRequest ==
    /\ client.sent # <<>>
    /\ client.sent[1].complete
    /\ client.sent[1].bytes.len > RecvSize

====
